---- MODULE Spec2Model ----
(***************************************************************************)
(* DupDetector: the database lock (lib/db_lock.py), the scripts that use   *)
(* it (scripts/deduplicate.py, scripts/purge_duplicates.py), the duplicate *)
(* classifier (services/repository.py, Repository.create_file) and the     *)
(* scan loop that drives it (cli.py, scan).                                *)
(*                                                                         *)
(* A table is the set of its committed rows.  Every statement a session    *)
(* commits is one atomic step; a query reads the rows committed at that    *)
(* moment.  A process is one OS process with one session; the steps of     *)
(* different processes interleave freely.                                  *)
(*                                                                         *)
(* Spec        the lock manager and the two scripts, NumProcs processes    *)
(* SpecWait    NumProcs processes contending for one lock, with fairness   *)
(* SpecDryRun  dry runs of the scripts beside processes taking their locks *)
(* SpecNullable the lock manager beside a holder whose rows never expire   *)
(* SpecRepo    create_file and scan over a folder of up to three files     *)
(* SpecEnrich  scans of such a folder with exiftool_path configured        *)
(* SpecCluster calls of cluster_by_hamming (lib/hashing.py) on short lists *)
(* SpecHamming calls of hamming_distance (lib/hashing.py) on two strings   *)
(* SpecSimilar calls of Repository.cluster_similar_photos on a small table *)
(***************************************************************************)
EXTENDS Integers, Sequences, FiniteSets, TLC

\* ------------------------------------------------------------------ bounds
NumProcs == 2          \* processes (each with its own session)
MaxTime == 4           \* the clock runs 0..MaxTime
TimeoutSeconds == 2    \* timeout_seconds of a lock instance (3600 by default)
WaitTimeout == 2       \* wait_timeout of a lock instance (60 by default)
MaxId == 3             \* the largest id application_locks hands out
MaxWork == 2           \* files a script's mutating loop handles
Workers == 2           \* worker threads of a scan (4 by default)

\* ------------------------------------------------------- program constants
SleepSeconds == 2      \* time.sleep(2) between two polls
NULL == -1             \* a NULL expires_at (the column is nullable)

Procs == 1..NumProcs
LockNames == {"scan", "deduplicate", "purge"}
Scripts == {"deduplicate", "purge"}

\* os.getpid() and socket.gethostname() of process p
Pid(p) == 100 + p
Hostname(p) == IF p % 2 = 1 THEN "hostA" ELSE "hostB"

VARIABLES
    now,       \* the wall clock (datetime.now(), time.time(), CURRENT_TIMESTAMP)
    locks,     \* the committed rows of application_locks
    proc,      \* each process: its DatabaseLock instance and the locals of its call
    files,     \* the committed rows of files
    exif,      \* the committed rows of exif_data: the file_id of each
    disk,      \* the scanned folder: what each path holds
    scan,      \* the scan process: its candidates, its pool, its results
    repeated,  \* whether create_file was ever called with a path already stored
    call,      \* a call of cluster_by_hamming: its arguments and what it returned
    checker    \* a dry run: its DryRunLockChecker and where its check stands

vars == <<now, locks, proc, files, exif, disk, scan, repeated, call, checker>>
repoVars == <<files, exif, disk, scan, repeated, call, checker>>

\* ------------------------------------------------------------ rows, errors
NoRow == [id |-> 0, lock_name |-> "", process_id |-> 0, hostname |-> "",
          acquired_at |-> 0, expires_at |-> NULL]

NoError == [kind |-> "none", process_id |-> 0, hostname |-> ""]

\* variant of HeldError: the message names nobody
AnonymousHeldError(row) == [kind |-> "held", process_id |-> 0, hostname |-> ""]

\* LockAcquisitionError("Lock ... is held by PID <pid> on <host> (acquired at ...)")
HeldError(row) ==
    [kind |-> "held", process_id |-> row.process_id, hostname |-> row.hostname]

\* LockAcquisitionError("Timeout waiting for lock ... (held by PID <pid> on <host>)")
TimeoutError(row) ==
    [kind |-> "timeout", process_id |-> row.process_id, hostname |-> row.hostname]

\* LockAcquisitionError("Lock ... was acquired by another process"): no holder named
RaceError == [kind |-> "race", process_id |-> 0, hostname |-> ""]

\* the exception a with-body raised, passing through __exit__
BodyError == [kind |-> "body", process_id |-> 0, hostname |-> ""]

MaxOf(S) == CHOOSE x \in S : \A y \in S : y <= x
MinOf(S) == CHOOSE x \in S : \A y \in S : x <= y

\* id = Column(Integer, primary_key=True): the store's default engine (SQLite)
\* gives an inserted row the largest id of the table plus one
NewId(table) == IF table = {} THEN 1 ELSE MaxOf({r.id : r \in table}) + 1

\* existing_lock.expires_at and existing_lock.expires_at < datetime.now()
IsExpired(row, t) == row.expires_at # NULL /\ row.expires_at < t

\* session.query(ApplicationLock).filter_by(lock_name=name).first()
QueryFirst(table, name) ==
    IF \E r \in table : r.lock_name = name
    THEN CHOOSE r \in table : r.lock_name = name
    ELSE NoRow

\* the rows of a lock name
RowsOf(table, name) == {r \in table : r.lock_name = name}

\* variant of UniqueViolation: a table without the unique constraint
NoUniqueConstraint(table, name) == FALSE

\* lock_name = Column(..., unique=True): the commit of a second row of a name fails
UniqueViolation(table, name) == \E r \in table : r.lock_name = name

\* variant of DeleteById: a delete that removes nothing
DeleteNothing(table, id) == table

\* session.delete(obj); session.commit(): DELETE ... WHERE id = obj.id.  A row
\* that is gone makes the statement match nothing, which the session only warns of.
DeleteById(table, id) == {r \in table : r.id # id}

\* ApplicationLock(lock_name=..., process_id=..., hostname=..., expires_at=...)
\* acquired_at is the server default CURRENT_TIMESTAMP at the insert
NewLockRow(table, name, p, exp, t) ==
    [id |-> NewId(table), lock_name |-> name, process_id |-> Pid(p),
     hostname |-> Hostname(p), acquired_at |-> t, expires_at |-> exp]

\* What the session hands back for the queried row: an object it already holds
\* for that primary key is returned as loaded (it is not refreshed)
Loaded(cached, row) ==
    IF row # NoRow /\ cached # NoRow /\ cached.id = row.id THEN cached ELSE row

\* DatabaseLock.__init__ (lock_record = None) and a process between two calls
\* (the locals of a call that is over are gone)
IdleProc ==
    [pc |-> "idle", lock_name |-> "", wait_for_lock |-> FALSE, expires_at |-> NULL,
     start_time |-> 0, existing_lock |-> NoRow, loaded |-> NoRow,
     lock_record |-> NoRow, matched |-> 0, error |-> NoError, wake |-> 0,
     expired_locks |-> {}, returned |-> NoRow, script |-> "none", work |-> 0]

\* The fields of proc[p] beyond the source's names: pc, where the process
\* stands; loaded, the ApplicationLock object its session holds in memory;
\* matched, the rows the DELETE of its last release matched; script and work,
\* the script it runs and the files that script has still to handle.

\* acquire() returns or raises: its locals expires_at, start_time are gone
\* (existing_lock is kept: it tells what the call found)
Returned(me) ==
    [me EXCEPT !.expires_at = NULL, !.start_time = 0, !.wake = 0, !.loaded = NoRow]

\* ------------------------------------------------------- the scanned folder
Paths == {"a", "b", "c"}
PathOrder == <<"a", "b", "c">>   \* the order _iter_files yields them in
Md5s == {"m1", "m2"}          \* md5_file(path): content hashes
PhotoHashes == {"", "p1"}     \* phash_stub(path): "" stands for None

\* what a path holds: nothing, a file that cannot be opened, or a file with
\* the hashes its bytes give
Absent == [exists |-> FALSE, readable |-> FALSE, md5 |-> "", phash |-> ""]
Unreadable == [exists |-> TRUE, readable |-> FALSE, md5 |-> "", phash |-> ""]
Contents ==
    {Absent, Unreadable} \cup
    {[exists |-> TRUE, readable |-> TRUE, md5 |-> m, phash |-> h] :
        m \in Md5s, h \in PhotoHashes}

\* the scan process before scan() is called
\* (exiftool: whether exiftool_path is configured; step, current, raw_out and
\* created: where the coordinating thread stands in its loop, the file it
\* handles, what exiftool gave for it, the id create_file returned;
\* geocode_failed: whether reverse-geocoding raised for a file of this scan)
IdleScan ==
    [pc |-> "idle", queue |-> <<>>, running |-> {}, completed |-> {},
     persisted |-> 0, exit_code |-> NULL, contended |-> FALSE,
     exiftool |-> FALSE, step |-> "wait", current |-> "", raw_out |-> "none",
     created |-> NULL, geocode_failed |-> FALSE]

\* no call of cluster_by_hamming is made
NoCall == [pc |-> "none", items |-> <<>>, threshold |-> 0, clusters |-> <<>>]

\* no dry run is under way
NoChecker ==
    [pc |-> "none", lock_name |-> "", last_check_time |-> 0, current_time |-> 0,
     existing_lock |-> NoRow, error |-> NoError]

\* ------------------------------------------------------------------- Init
Init ==
    /\ now = 0
    /\ locks = {}
    /\ proc = [p \in Procs |-> IdleProc]
    /\ files = {}
    /\ exif = {}
    /\ disk = [path \in Paths |-> Absent]
    /\ scan = IdleScan
    /\ repeated = FALSE
    /\ call = NoCall
    /\ checker = NoChecker

\* ------------------------------------------------------------------ clock
Tick ==
    /\ now < MaxTime
    /\ now' = now + 1
    /\ UNCHANGED <<locks, proc, repoVars>>

\* ------------------------------------------------- DatabaseLock.acquire
\* __enter__ -> acquire(): the locals set before the loop
Enter(p, name, wait) ==
    /\ proc[p].pc = "idle"
    /\ NewId(locks) <= MaxId
    /\ proc' = [proc EXCEPT ![p] =
                  [IdleProc EXCEPT !.pc = "acq_query", !.lock_name = name,
                                   !.wait_for_lock = wait,
                                   !.expires_at = now + TimeoutSeconds,
                                   !.start_time = now]]
    /\ UNCHANGED <<now, locks, repoVars>>

\* one pass of the loop up to its first commit or raise: the query and the
\* branch on what it found
AcquireQuery(p) ==
    /\ proc[p].pc = "acq_query"
    /\ LET me == proc[p]
           row == Loaded(me.loaded, QueryFirst(locks, me.lock_name))
           got == [me EXCEPT !.existing_lock = row, !.loaded = row]
       IN proc' = [proc EXCEPT ![p] =
            IF row = NoRow
            THEN [got EXCEPT !.pc = "acq_insert"]
            ELSE IF IsExpired(row, now)
            THEN [got EXCEPT !.pc = "acq_delete"]
            ELSE IF ~me.wait_for_lock
            THEN [Returned(got) EXCEPT !.pc = "error", !.error = HeldError(row)]
            ELSE IF now - me.start_time >= WaitTimeout
            THEN [Returned(got) EXCEPT !.pc = "error", !.error = TimeoutError(row)]
            ELSE [got EXCEPT !.pc = "acq_sleep", !.wake = now + SleepSeconds]]
    /\ UNCHANGED <<now, locks, repoVars>>

\* time.sleep(2); continue
AcquireWake(p) ==
    /\ proc[p].pc = "acq_sleep"
    /\ now >= proc[p].wake
    /\ proc' = [proc EXCEPT ![p].pc = "acq_query"]
    /\ UNCHANGED <<now, locks, repoVars>>

\* the expired row: session.delete(existing_lock); session.commit(), then on
\* to the insert
AcquireDelete(p) ==
    /\ proc[p].pc = "acq_delete"
    /\ locks' = DeleteById(locks, proc[p].existing_lock.id)
    /\ proc' = [proc EXCEPT ![p].loaded = NoRow, ![p].pc = "acq_insert"]
    /\ UNCHANGED <<now, repoVars>>

\* session.add(lock_record); session.commit(): success, or IntegrityError,
\* rollback and raise (or retry when waiting)
AcquireInsert(p) ==
    /\ proc[p].pc = "acq_insert"
    /\ NewId(locks) <= MaxId
    /\ LET me == proc[p] IN
       IF UniqueViolation(locks, me.lock_name)
       THEN /\ proc' = [proc EXCEPT ![p] =
                  IF ~me.wait_for_lock
                  THEN [Returned(me) EXCEPT !.pc = "error", !.error = RaceError]
                  ELSE [me EXCEPT !.loaded = NoRow, !.pc = "acq_query"]]
            /\ UNCHANGED locks
       ELSE LET row == NewLockRow(locks, me.lock_name, p, me.expires_at, now) IN
            /\ locks' = locks \cup {row}
            /\ proc' = [proc EXCEPT ![p] =
                         [Returned(me) EXCEPT !.lock_record = row, !.pc = "held"]]
    /\ UNCHANGED <<now, repoVars>>

\* ------------------------------------- DatabaseLock.release via __exit__
\* variant of Release: the row is left in the table
ReleaseKeepsRow(table, rec) == table

\* release(): delete the instance's lock_record, commit, forget it
Release(table, rec) == IF rec # NoRow THEN DeleteById(table, rec.id) ELSE table

\* release()'s except branch (rollback, raise): whether the delete and its
\* commit raise.  A DELETE that matches no row only makes the session warn.
ReleaseRaises(table, rec) == FALSE

\* LockAcquisitionError is not what release() would raise: the session's error
ReleaseError == [kind |-> "release", process_id |-> 0, hostname |-> ""]

\* the with-body ends, normally or by raising; __exit__ calls release().
\* The body of a script's with-block is one print.
Exit(p, raised) ==
    /\ proc[p].pc = "held"
    /\ raised => proc[p].script = "none"
    /\ LET me == proc[p] IN
       IF ReleaseRaises(locks, me.lock_record)
       THEN /\ locks' = locks
            /\ proc' = [proc EXCEPT ![p].pc = "released", ![p].error = ReleaseError]
       ELSE /\ locks' = Release(locks, me.lock_record)
            /\ proc' = [proc EXCEPT ![p].lock_record = NoRow, ![p].pc = "released",
                          ![p].matched = Cardinality(locks) -
                                         Cardinality(Release(locks, me.lock_record)),
                          ![p].error = IF raised THEN BodyError ELSE NoError]
    /\ UNCHANGED <<now, repoVars>>

\* ------------------------------------------------ cleanup_expired_locks
\* session.query(ApplicationLock).filter(ApplicationLock.expires_at < now).all()
CleanupQuery(p) ==
    /\ proc[p].pc = "idle"
    /\ proc' = [proc EXCEPT ![p].pc = "cln_commit",
                  ![p].expired_locks = {r.id : r \in {x \in locks : IsExpired(x, now)}}]
    /\ UNCHANGED <<now, locks, repoVars>>

\* for lock in expired_locks: session.delete(lock); then session.commit()
CleanupCommit(p) ==
    /\ proc[p].pc = "cln_commit"
    /\ locks' = {r \in locks : r.id \notin proc[p].expired_locks}
    /\ proc' = [proc EXCEPT ![p] = IdleProc]
    /\ UNCHANGED <<now, repoVars>>

\* ---------------------------------------------------- check_lock_exists
CheckQuery(p, name) ==
    /\ proc[p].pc = "idle"
    /\ LET row == QueryFirst(locks, name) IN
       proc' = [proc EXCEPT ![p] =
          IF row # NoRow /\ IsExpired(row, now)
          THEN [IdleProc EXCEPT !.lock_name = name, !.existing_lock = row,
                                !.loaded = row, !.pc = "chk_delete"]
          ELSE [IdleProc EXCEPT !.lock_name = name, !.existing_lock = row,
                                !.loaded = row, !.returned = row,
                                !.pc = "checked"]]
    /\ UNCHANGED <<now, locks, repoVars>>

\* session.delete(existing_lock); session.commit(); return None
CheckDelete(p) ==
    /\ proc[p].pc = "chk_delete"
    /\ locks' = DeleteById(locks, proc[p].existing_lock.id)
    /\ proc' = [proc EXCEPT ![p].loaded = NoRow, ![p].returned = NoRow,
                            ![p].pc = "checked"]
    /\ UNCHANGED <<now, repoVars>>

\* the call is over (it returned or raised; a script that could not take its
\* lock returns 1); the process may start another
Restart(p) ==
    /\ \/ proc[p].pc \in {"error", "checked"}
       \/ (proc[p].pc = "released" /\ proc[p].script = "none")
    /\ proc' = [proc EXCEPT ![p] = IdleProc]
    /\ UNCHANGED <<now, locks, repoVars>>

\* ------------------------- deduplicate_files / purge_duplicates, not dry-run
\* with acquire_lock(session, <script>, timeout_seconds=7200):
ScriptStart(p, s) ==
    /\ proc[p].pc = "idle"
    /\ NewId(locks) <= MaxId
    /\ proc' = [proc EXCEPT ![p] =
                  [IdleProc EXCEPT !.pc = "acq_query", !.lock_name = s,
                                   !.script = s,
                                   !.expires_at = now + 2 * TimeoutSeconds,
                                   !.start_time = now]]
    /\ UNCHANGED <<now, locks, repoVars>>

\* the with-block is left; the script finds its files and enters the loop
\* that moves (deduplicate) or deletes (purge) them
ScriptLoop(p) ==
    /\ proc[p].pc = "released"
    /\ proc[p].script # "none"
    /\ proc' = [proc EXCEPT ![p].pc = "mutating", ![p].work = MaxWork]
    /\ UNCHANGED <<now, locks, repoVars>>

\* one file: shutil.move / file_path.unlink, the record update, session.commit()
ScriptMutate(p) ==
    /\ proc[p].pc = "mutating"
    /\ proc[p].work > 0
    /\ proc' = [proc EXCEPT ![p].work = @ - 1]
    /\ UNCHANGED <<now, locks, repoVars>>

\* session.close(); return 0
ScriptReturn(p) ==
    /\ proc[p].pc = "mutating"
    /\ proc[p].work = 0
    /\ proc' = [proc EXCEPT ![p] = IdleProc]
    /\ UNCHANGED <<now, locks, repoVars>>

Next ==
    \/ Tick
    \/ \E p \in Procs, name \in LockNames, wait \in BOOLEAN : Enter(p, name, wait)
    \/ \E p \in Procs : AcquireQuery(p)
    \/ \E p \in Procs : AcquireWake(p)
    \/ \E p \in Procs : AcquireDelete(p)
    \/ \E p \in Procs : AcquireInsert(p)
    \/ \E p \in Procs, raised \in BOOLEAN : Exit(p, raised)
    \/ \E p \in Procs : CleanupQuery(p)
    \/ \E p \in Procs : CleanupCommit(p)
    \/ \E p \in Procs, name \in LockNames : CheckQuery(p, name)
    \/ \E p \in Procs : CheckDelete(p)
    \/ \E p \in Procs : Restart(p)
    \/ \E p \in Procs, s \in Scripts : ScriptStart(p, s)
    \/ \E p \in Procs : ScriptLoop(p)
    \/ \E p \in Procs : ScriptMutate(p)
    \/ \E p \in Procs : ScriptReturn(p)

Spec == Init /\ [][Next]_vars

\* ----------------------------------------- processes contending for one lock
\* the steps of acquire() of process p: the code runs on once it was called
AcquireStep(p) ==
    AcquireQuery(p) \/ AcquireWake(p) \/ AcquireDelete(p) \/ AcquireInsert(p)

NextWait ==
    \/ Tick
    \/ \E p \in Procs, wait \in BOOLEAN : Enter(p, "scan", wait)
    \/ \E p \in Procs : AcquireQuery(p)
    \/ \E p \in Procs : AcquireWake(p)
    \/ \E p \in Procs : AcquireDelete(p)
    \/ \E p \in Procs : AcquireInsert(p)
    \/ \E p \in Procs, raised \in BOOLEAN : Exit(p, raised)
    \/ \E p \in Procs : Restart(p)

\* time passes and a process inside acquire() takes its next step; when a
\* holder leaves its with-block, and whether anybody asks again, is left open
SpecWait ==
    /\ Init
    /\ [][NextWait]_vars
    /\ WF_vars(Tick)
    /\ \A p \in Procs : WF_vars(AcquireStep(p))

\* ------------------------------------------- rows without an expiry time
\* expires_at is nullable and DatabaseLock always sets it: a row with
\* expires_at NULL is written by a holder outside this program, which works
\* on the table at times of its own choosing
\* the foreign holder takes a free lock name: a row without expiry time
ForeignInsert(name) ==
    /\ ~UniqueViolation(locks, name)
    /\ NewId(locks) <= MaxId
    /\ locks' = locks \cup {NewLockRow(locks, name, NumProcs + 1, NULL, now)}
    /\ UNCHANGED <<now, proc, repoVars>>

\* the foreign holder removes its row
ForeignRelease(name) ==
    /\ \E r \in RowsOf(locks, name) : r.process_id = Pid(NumProcs + 1)
    /\ locks' = {r \in locks : r.lock_name # name}
    /\ UNCHANGED <<now, proc, repoVars>>

NextNullable ==
    \/ Tick
    \/ \E p \in Procs : Enter(p, "scan", FALSE)
    \/ \E p \in Procs : AcquireQuery(p)
    \/ \E p \in Procs : AcquireDelete(p)
    \/ \E p \in Procs : AcquireInsert(p)
    \/ \E p \in Procs, raised \in BOOLEAN : Exit(p, raised)
    \/ \E p \in Procs : CleanupQuery(p)
    \/ \E p \in Procs : CleanupCommit(p)
    \/ \E p \in Procs : CheckQuery(p, "scan")
    \/ \E p \in Procs : CheckDelete(p)
    \/ \E p \in Procs : Restart(p)
    \/ ForeignInsert("scan")
    \/ ForeignRelease("scan")

SpecNullable == Init /\ [][NextNullable]_vars

\* ------------------------------------------------------ DryRunLockChecker
\* check_interval of a checker (60 in the scripts)
CheckInterval == 2

\* variant of check_lock_exists: the row of the name, expired or not
CheckIgnoresExpiry(table, name, t) == QueryFirst(table, name)

\* check_lock_exists returns: the row of the name unless it is expired
check_lock_exists(table, name, t) ==
    LET existing_lock == QueryFirst(table, name) IN
    IF existing_lock # NoRow /\ IsExpired(existing_lock, t) THEN NoRow
    ELSE existing_lock

\* "Lock ... is currently held by PID ..." / "Lock ... was acquired by PID ..."
CheckerError(kind, row) ==
    [kind |-> kind, process_id |-> row.process_id, hostname |-> row.hostname]

\* DryRunLockChecker(session, <script>, check_interval=60): a dry run of a
\* script, in a process and a session of its own
DryRunStart(s) ==
    /\ checker.pc = "none"
    /\ checker' = [NoChecker EXCEPT !.pc = "created", !.lock_name = s]
    /\ UNCHANGED <<now, locks, proc, files, exif, disk, scan, repeated, call>>

\* check_at_start() up to its raise, its return or the commit of the delete
\* inside check_lock_exists
check_at_start ==
    /\ checker.pc = "created"
    /\ LET row == QueryFirst(locks, checker.lock_name)
           existing_lock == check_lock_exists(locks, checker.lock_name, now)
       IN checker' =
            IF existing_lock # NoRow
            THEN [checker EXCEPT !.pc = "aborted", !.existing_lock = existing_lock,
                                 !.error = CheckerError("at_start", existing_lock)]
            ELSE IF row # NoRow
            THEN [checker EXCEPT !.pc = "start_delete", !.existing_lock = row]
            ELSE [checker EXCEPT !.pc = "running", !.existing_lock = NoRow,
                                 !.last_check_time = now]
    /\ UNCHANGED <<now, locks, proc, files, exif, disk, scan, repeated, call>>

\* periodic_check() with check_interval elapsed, up to its raise, its return
\* or the commit of the delete inside check_lock_exists (a periodic_check
\* before that reads the clock and returns)
periodic_check ==
    /\ checker.pc = "running"
    /\ now - checker.last_check_time >= CheckInterval
    /\ LET row == QueryFirst(locks, checker.lock_name)
           existing_lock == check_lock_exists(locks, checker.lock_name, now)
       IN checker' =
            IF existing_lock # NoRow
            THEN [checker EXCEPT !.pc = "aborted", !.current_time = now,
                                 !.existing_lock = existing_lock,
                                 !.error = CheckerError("periodic", existing_lock)]
            ELSE IF row # NoRow
            THEN [checker EXCEPT !.pc = "periodic_delete", !.current_time = now,
                                 !.existing_lock = row]
            ELSE [checker EXCEPT !.current_time = now, !.existing_lock = NoRow,
                                 !.last_check_time = now]
    /\ UNCHANGED <<now, locks, proc, files, exif, disk, scan, repeated, call>>

\* session.delete(existing_lock); session.commit(); return None, and the
\* caller notes the time: time.time() at the start, current_time later
CheckerDelete ==
    /\ checker.pc \in {"start_delete", "periodic_delete"}
    /\ locks' = DeleteById(locks, checker.existing_lock.id)
    /\ checker' = [checker EXCEPT !.pc = "running", !.existing_lock = NoRow,
                      !.last_check_time = IF checker.pc = "start_delete" THEN now
                                          ELSE checker.current_time]
    /\ UNCHANGED <<now, proc, files, exif, disk, scan, repeated, call>>

\* the dry run is over: it returned 1 on the error, or came to its end
DryRunReturn ==
    /\ checker.pc \in {"aborted", "running"}
    /\ checker' = NoChecker
    /\ UNCHANGED <<now, locks, proc, files, exif, disk, scan, repeated, call>>

\* the processes beside the one that does the dry runs
LockTakers == Procs \ {NumProcs}

\* the other processes take and release the locks of the scripts (not
\* waiting) while dry runs of the scripts come and go; a row that outlives
\* its lease is its holder's own, so acquire() never meets an expired row
NextDryRun ==
    \/ Tick
    \/ \E p \in LockTakers, s \in Scripts : Enter(p, s, FALSE)
    \/ \E p \in LockTakers : AcquireQuery(p)
    \/ \E p \in LockTakers : AcquireInsert(p)
    \/ \E p \in LockTakers, raised \in BOOLEAN : Exit(p, raised)
    \/ \E p \in LockTakers : Restart(p)
    \/ \E s \in Scripts : DryRunStart(s)
    \/ check_at_start
    \/ periodic_check
    \/ CheckerDelete
    \/ DryRunReturn

SpecDryRun == Init /\ [][NextDryRun]_vars

\* ================================================ Repository.create_file
\* variant of FirstByMd5: the match with the largest id
LastByMd5(table, md5) ==
    CHOOSE r \in table :
        /\ r.md5_hash = md5
        /\ \A x \in table : x.md5_hash = md5 => x.id <= r.id

\* session.query(File).filter_by(md5_hash=md5).first(): no ORDER BY; the
\* default engine walks the rows by id, so the match with the smallest id
FirstByMd5(table, md5) ==
    CHOOSE r \in table :
        /\ r.md5_hash = md5
        /\ \A x \in table : x.md5_hash = md5 => r.id <= x.id

\* session.query(File).filter_by(photo_hash=photo_hash).first()
FirstByPhotoHash(table, photo_hash) ==
    CHOOSE r \in table :
        /\ r.photo_hash = photo_hash
        /\ \A x \in table : x.photo_hash = photo_hash => r.id <= x.id

\* the stored row of a path
RowOfPath(table, path) == CHOOSE r \in table : r.path = path

\* session.query(File).filter_by(path=path).first(); path is unique
FirstByPath(table, path) == CHOOSE r \in table : r.path = path

\* variant of DuplicateOf: the photo_hash match first
PhotoHashFirst(table, md5, photo_hash) ==
    IF photo_hash # "" /\ \E r \in table : r.photo_hash = photo_hash
    THEN FirstByPhotoHash(table, photo_hash).id
    ELSE IF md5 # "" /\ \E r \in table : r.md5_hash = md5
    THEN FirstByMd5(table, md5).id
    ELSE NULL

\* duplicate_of: the md5 match first, the photo_hash match only without one,
\* NULL without either ("if md5:" and "and photo_hash": an empty value is skipped)
DuplicateOf(table, md5, photo_hash) ==
    IF md5 # "" /\ \E r \in table : r.md5_hash = md5
    THEN FirstByMd5(table, md5).id
    ELSE IF photo_hash # "" /\ \E r \in table : r.photo_hash = photo_hash
    THEN FirstByPhotoHash(table, photo_hash).id
    ELSE NULL

\* File(**kwargs) with the flags create_file sets before session.add(f)
NewFile(table, path, md5, photo_hash, t) ==
    LET duplicate_of == DuplicateOf(table, md5, photo_hash) IN
    [id |-> NewId(table), path |-> path, md5_hash |-> md5,
     photo_hash |-> photo_hash, is_duplicate |-> duplicate_of # NULL,
     duplicate_of_id |-> duplicate_of, created_at |-> t, updated_at |-> t]

\* path = Column(String, unique=True): the commit of a second row of a path fails
PathTaken(table, path) == \E r \in table : r.path = path

\* except IntegrityError: the stored row of the path is marked a duplicate and
\* its updated_at is set to the server's time; nothing is inserted
MarkExisting(table, path, t) ==
    LET existing == FirstByPath(table, path) IN
    (table \ {existing}) \cup
        {[existing EXCEPT !.is_duplicate = TRUE, !.updated_at = t]}

\* create_file(path=..., md5_hash=..., photo_hash=...): the table after the call
create_file(table, path, md5, photo_hash, t) ==
    IF PathTaken(table, path)
    THEN MarkExisting(table, path, t)
    ELSE table \cup {NewFile(table, path, md5, photo_hash, t)}

\* a caller other than scan (a test, a script) hashes one file of the folder
\* and stores it
DirectCreate(path) ==
    /\ scan.pc # "hashing"
    /\ disk[path].readable
    /\ files' = create_file(files, path, disk[path].md5, disk[path].phash, now)
    /\ repeated' = (repeated \/ PathTaken(files, path))
    /\ UNCHANGED <<checker, call, now, locks, proc, exif, disk, scan>>

\* ================================================================ cli.scan
\* os.getpid() of the process that runs scan()
ScanPid == Pid(1)

\* a 'scan' row another holder (process 2) committed; its lease outlasts the clock
HeldScanRow == NewLockRow({}, "scan", 2, MaxTime, 0)

\* a non-expired 'scan' row of another holder
Contended(table, t) ==
    \E r \in RowsOf(table, "scan") : r.process_id # ScanPid /\ ~IsExpired(r, t)

\* for p in _iter_files(folder, recursive): candidates.append((p, size))
Candidates(d) == SelectSeq(PathOrder, LAMBDA path : d[path].exists)

\* scan(args, session): configuration (configured: exiftool_path is set), then
\* discovery; no lock is taken
ScanStart(configured) ==
    /\ scan.pc = "idle"
    /\ scan' = [IdleScan EXCEPT !.pc = "hashing", !.queue = Candidates(disk),
                                !.contended = Contended(locks, now),
                                !.exiftool = configured]
    /\ UNCHANGED <<checker, call, now, locks, proc, files, exif, disk, repeated>>

\* ThreadPoolExecutor(max_workers=workers): a free thread takes the next item
WorkerStart ==
    /\ scan.pc = "hashing"
    /\ scan.queue # <<>>
    /\ Cardinality(scan.running) < Workers
    /\ scan' = [scan EXCEPT !.queue = Tail(@), !.running = @ \cup {Head(scan.queue)}]
    /\ UNCHANGED <<checker, call, now, locks, proc, files, exif, disk, repeated>>

\* variant of WorkerFinish: the worker thread stores its file itself
WorkerFinishWrites(path) ==
    /\ scan.pc = "hashing"
    /\ path \in scan.running
    /\ disk[path].readable
    /\ files' = create_file(files, path, disk[path].md5, disk[path].phash, now)
    /\ scan' = [scan EXCEPT !.running = @ \ {path}]
    /\ UNCHANGED <<checker, call, now, locks, proc, exif, disk, repeated>>

\* _hash_worker(item) returns: its future is done
WorkerFinish(path) ==
    /\ scan.pc = "hashing"
    /\ path \in scan.running
    /\ scan' = [scan EXCEPT !.running = @ \ {path}, !.completed = @ \cup {path}]
    /\ UNCHANGED <<checker, call, now, locks, proc, files, exif, disk, repeated>>

\* variant of HashResult: a failed md5_file goes unnoticed
HashResultNoError(d, path) ==
    [path |-> path, md5 |-> d[path].md5, phash |-> d[path].phash, error |-> FALSE]

\* the result of _hash_worker for a path: error set when md5_file raised
HashResult(d, path) ==
    [path |-> path, md5 |-> d[path].md5, phash |-> d[path].phash,
     error |-> ~d[path].readable]

\* what exiftool -j gives for a file: nothing (it failed, timed out or exited
\* non-zero), tags without GPS, tags with GPSLatitude and GPSLongitude
RawOutputs == {"none", "plain", "gps"}

\* one pass of "for fut in as_completed(...)" up to "if repo:": the next
\* completed future is taken; an error result is skipped
ScanHandle(path) ==
    /\ scan.pc = "hashing"
    /\ scan.step = "wait"
    /\ path \in scan.completed
    /\ LET res == HashResult(disk, path) IN
       IF res.error
       THEN scan' = [scan EXCEPT !.completed = @ \ {path}]
       ELSE scan' = [scan EXCEPT !.completed = @ \ {path}, !.current = path,
                                 !.raw_out = "none",
                                 !.step = IF scan.exiftool THEN "extract" ELSE "create"]
    /\ UNCHANGED <<checker, call, now, locks, proc, files, exif, disk, repeated>>

\* subprocess.run([exiftool_path, "-j", path], ...): raw_out
ScanExtract(out) ==
    /\ scan.pc = "hashing"
    /\ scan.step = "extract"
    /\ scan' = [scan EXCEPT !.raw_out = out, !.step = "create"]
    /\ UNCHANGED <<checker, call, now, locks, proc, files, exif, disk, repeated>>

\* _apply_parsed_exif_to_file raises (no geocode configuration, or no city and
\* country for the GPS position) only for tags with GPS that do not resolve
GeocodeRaises(raw_exif, resolved) == raw_exif = "gps" /\ ~resolved

\* created = repo.create_file(..., raw_exif=raw_out): what _apply_parsed_exif_to_file
\* raises is caught inside create_file (except Exception: pass), the record is
\* committed all the same; save_exif follows if raw_out
ScanCreate(resolved) ==
    /\ scan.pc = "hashing"
    /\ scan.step = "create"
    /\ LET res == HashResult(disk, scan.current) IN
       /\ files' = create_file(files, res.path, res.md5, res.phash, now)
       /\ repeated' = (repeated \/ PathTaken(files, res.path))
       /\ scan' = IF scan.raw_out # "none"
                  THEN [scan EXCEPT
                          !.persisted = @ + 1,
                          !.created = RowOfPath(files', res.path).id,
                          !.geocode_failed = @ \/ GeocodeRaises(scan.raw_out, resolved),
                          !.step = "save_exif"]
                  ELSE [scan EXCEPT
                          !.persisted = @ + 1, !.current = "", !.step = "wait"]
    /\ UNCHANGED <<checker, call, now, locks, proc, exif, disk>>

\* variant of ScanSaveExif: the raw EXIF is saved under an id no record has yet
ScanSaveExifUnwritten ==
    /\ scan.pc = "hashing"
    /\ scan.step = "save_exif"
    /\ exif' = exif \cup {NewId(files)}
    /\ scan' = [scan EXCEPT !.step = "wait", !.current = "", !.raw_out = "none",
                            !.created = NULL]
    /\ UNCHANGED <<checker, call, now, locks, proc, files, disk, repeated>>

\* repo.save_exif(created.id, raw_out): the row of the file is replaced or inserted
ScanSaveExif ==
    /\ scan.pc = "hashing"
    /\ scan.step = "save_exif"
    /\ exif' = exif \cup {scan.created}
    /\ scan' = [scan EXCEPT !.step = "wait", !.current = "", !.raw_out = "none",
                            !.created = NULL]
    /\ UNCHANGED <<checker, call, now, locks, proc, files, disk, repeated>>

\* every future was handled: return 0
ScanReturn ==
    /\ scan.pc = "hashing"
    /\ scan.step = "wait"
    /\ scan.queue = <<>>
    /\ scan.running = {}
    /\ scan.completed = {}
    /\ scan' = [scan EXCEPT !.pc = "done", !.exit_code = 0]
    /\ UNCHANGED <<checker, call, now, locks, proc, files, exif, disk, repeated>>

\* the process is gone; scan may be run again
ScanReset ==
    /\ scan.pc = "done"
    /\ scan' = IdleScan
    /\ UNCHANGED <<checker, call, now, locks, proc, files, exif, disk, repeated>>

InitRepo ==
    /\ now = 0
    /\ locks \in {{}, {HeldScanRow}}
    /\ proc = [p \in Procs |-> IdleProc]
    /\ files = {}
    /\ exif = {}
    /\ disk \in [Paths -> Contents]
    /\ scan = IdleScan
    /\ repeated = FALSE
    /\ call = NoCall
    /\ checker = NoChecker

NextRepo ==
    \/ \E path \in Paths : DirectCreate(path)
    \/ ScanStart(FALSE)
    \/ WorkerStart
    \/ \E path \in Paths : WorkerFinish(path)
    \/ \E path \in Paths : ScanHandle(path)
    \/ \E resolved \in BOOLEAN : ScanCreate(resolved)
    \/ ScanReturn
    \/ ScanReset

SpecRepo == InitRepo /\ [][NextRepo]_vars

\* ------------------------------------ scan with exiftool_path configured
InitEnrich ==
    /\ now = 0
    /\ locks = {}
    /\ proc = [p \in Procs |-> IdleProc]
    /\ files = {}
    /\ exif = {}
    /\ disk \in [Paths -> Contents]
    /\ scan = IdleScan
    /\ repeated = FALSE
    /\ call = NoCall
    /\ checker = NoChecker

NextEnrich ==
    \/ \E configured \in BOOLEAN : ScanStart(configured)
    \/ WorkerStart
    \/ \E path \in Paths : WorkerFinish(path)
    \/ \E path \in Paths : ScanHandle(path)
    \/ \E out \in RawOutputs : ScanExtract(out)
    \/ \E resolved \in BOOLEAN : ScanCreate(resolved)
    \/ ScanSaveExif
    \/ ScanReturn
    \/ ScanReset

SpecEnrich == InitEnrich /\ [][NextEnrich]_vars

\* ---------------------------------------- lib/hashing.py: phash clustering
\* width of a perceptual hash in bits (the bits parameter, 64 by default)
Bits == 4
\* longest list of items handed to cluster_by_hamming
MaxItems == 3
\* longest hash string in an item
MaxHexLen == 1

\* the digits int(hexstr, 16) accepts, in the order of their values
HexDigits ==
    <<"0", "1", "2", "3", "4", "5", "6", "7",
      "8", "9", "a", "b", "c", "d", "e", "f">>

\* the characters of the hash strings drawn: some digits and a non-digit
HashChars == {"0", "1", "7", "f", "z"}

\* hash strings: sequences of characters, the empty string included
HashStrings == UNION {[1..n -> HashChars] : n \in 0..MaxHexLen}

\* value of one hex digit, NULL for any other character
HexDigitValue(ch) ==
    IF \E k \in 1..Len(HexDigits) : HexDigits[k] = ch
    THEN (CHOOSE k \in 1..Len(HexDigits) : HexDigits[k] = ch) - 1
    ELSE NULL

RECURSIVE HexFold(_, _)
\* the digits of hexstr read left to right onto the value acc
HexFold(hexstr, acc) ==
    IF hexstr = <<>> THEN acc
    ELSE HexFold(Tail(hexstr), acc * Len(HexDigits) + HexDigitValue(Head(hexstr)))

\* int(hexstr, 16); NULL where it raises ValueError
IntOfHex(hexstr) ==
    IF hexstr = <<>> \/ \E k \in 1..Len(hexstr) : HexDigitValue(hexstr[k]) = NULL
    THEN NULL
    ELSE HexFold(hexstr, 0)

RECURSIVE Bin(_)
\* bin(i)[2:] : the binary digits of i >= 0 without leading zeros
Bin(i) == IF i < 2 THEN <<i>> ELSE Append(Bin(i \div 2), i % 2)

\* b.rjust(width, "0")
RJust(b, width) ==
    IF Len(b) >= width THEN b ELSE [k \in 1..(width - Len(b)) |-> 0] \o b

\* _hex_to_bitstring: "" for an unparsable string, else the last bits digits
hex_to_bitstring(hexstr, bits) ==
    LET i == IntOfHex(hexstr)
        b == RJust(Bin(i), bits)
    IN  IF i = NULL THEN <<>> ELSE SubSeq(b, Len(b) - bits + 1, Len(b))

\* variant: only an empty first bitstring is noticed
HammingFirstOnly(hex1, hex2, bits) ==
    LET b1 == hex_to_bitstring(hex1, bits)
        b2 == hex_to_bitstring(hex2, bits)
    IN  IF b1 = <<>> THEN bits
        ELSE Cardinality({k \in 1..MinOf({Len(b1), Len(b2)}) : b1[k] # b2[k]})

\* hamming_distance: bits when either bitstring is empty
hamming_distance(hex1, hex2, bits) ==
    LET b1 == hex_to_bitstring(hex1, bits)
        b2 == hex_to_bitstring(hex2, bits)
    IN  IF b1 = <<>> \/ b2 = <<>> THEN bits
        ELSE Cardinality({k \in 1..MinOf({Len(b1), Len(b2)}) : b1[k] # b2[k]})

\* variant: an item joins a cluster when it is at least threshold away
Beyond(d, threshold) == d >= threshold

\* the membership test of the inner loop
Within(d, threshold) == d <= threshold

\* variant: ids are never marked as used
UsedForgotten(used, id) == used

\* used.add(id)
Used(used, id) == used \cup {id}

RECURSIVE InnerLoop(_, _, _, _, _, _, _)
\* for j in range(i + 1, len(items)): the cluster seeded by items[i]
InnerLoop(items, i, j, used, cluster, threshold, bits) ==
    IF j > Len(items) THEN [used |-> used, cluster |-> cluster]
    ELSE IF items[j].id \in used
    THEN InnerLoop(items, i, j + 1, used, cluster, threshold, bits)
    ELSE IF Within(hamming_distance(items[i].phash, items[j].phash, bits), threshold)
    THEN InnerLoop(items, i, j + 1, Used(used, items[j].id),
                   Append(cluster, items[j].id), threshold, bits)
    ELSE InnerLoop(items, i, j + 1, used, cluster, threshold, bits)

RECURSIVE OuterLoop(_, _, _, _, _, _)
\* for i, (id_i, p_i) in enumerate(items)
OuterLoop(items, i, used, clusters, threshold, bits) ==
    IF i > Len(items) THEN clusters
    ELSE IF items[i].id \in used
    THEN OuterLoop(items, i + 1, used, clusters, threshold, bits)
    ELSE LET r == InnerLoop(items, i, i + 1, Used(used, items[i].id),
                            <<items[i].id>>, threshold, bits)
         IN  OuterLoop(items, i + 1, r.used, Append(clusters, r.cluster),
                       threshold, bits)

\* cluster_by_hamming: the list of clusters, each a list of ids
cluster_by_hamming(items, threshold, bits) ==
    OuterLoop(items, 1, {}, <<>>, threshold, bits)

\* the (id, phash) items and the lists of them that are drawn
Items == [id : 1..MaxItems, phash : HashStrings]
ItemLists == UNION {[1..n -> Items] : n \in 0..MaxItems}
Thresholds == (0 - 1)..Bits

\* the caller holds its arguments and calls cluster_by_hamming
ClusterCall ==
    /\ call.pc = "args"
    /\ call' = [call EXCEPT !.pc = "returned",
                            !.clusters = cluster_by_hamming(call.items,
                                                            call.threshold, Bits)]
    /\ UNCHANGED <<checker, now, locks, proc, files, exif, disk, scan, repeated>>

InitCluster ==
    /\ now = 0
    /\ locks = {}
    /\ proc = [p \in Procs |-> IdleProc]
    /\ files = {}
    /\ exif = {}
    /\ disk = [path \in Paths |-> Absent]
    /\ scan = IdleScan
    /\ repeated = FALSE
    /\ call \in [pc : {"args"}, items : ItemLists, threshold : Thresholds,
                 clusters : {<<>>}]
    /\ checker = NoChecker

NextCluster == ClusterCall

SpecCluster == InitCluster /\ [][NextCluster]_vars

\* ------------------------------------------ calls of hamming_distance alone
\* the strings handed to hamming_distance: one character longer than a hash
\* of Bits bits needs, so that a value of more than Bits bits is among them
LongStrings == UNION {[1..n -> HashChars] : n \in 0..(MaxHexLen + 1)}

\* the caller holds two strings and calls hamming_distance
HammingCall ==
    /\ call.pc = "strings"
    /\ call' = [call EXCEPT !.pc = "distance",
                            !.distance = hamming_distance(call.hex1, call.hex2, Bits)]
    /\ UNCHANGED <<checker, now, locks, proc, files, exif, disk, scan, repeated>>

InitHamming ==
    /\ now = 0
    /\ locks = {}
    /\ proc = [p \in Procs |-> IdleProc]
    /\ files = {}
    /\ exif = {}
    /\ disk = [path \in Paths |-> Absent]
    /\ scan = IdleScan
    /\ repeated = FALSE
    /\ call \in [pc : {"strings"}, hex1 : LongStrings, hex2 : LongStrings,
                 distance : {NULL}]
    /\ checker = NoChecker

NextHamming == HammingCall

SpecHamming == InitHamming /\ [][NextHamming]_vars

\* ----------------------------- Repository.cluster_similar_photos on a table
\* photo_hash = None of a row, told apart from every hash string
NoPhotoHash == <<"None">>

\* a stored photo: the row create_file commits for the id-th file of the
\* folder when it is handed the given photo_hash
StoredPhoto(id, photo_hash) ==
    [id |-> id, path |-> PathOrder[id], md5_hash |-> "m1",
     photo_hash |-> photo_hash, is_duplicate |-> id > 1,
     duplicate_of_id |-> IF id > 1 THEN 1 ELSE NULL,
     created_at |-> 0, updated_at |-> 0]

\* the tables of up to MaxItems stored photos, ids 1..n
PhotoTables ==
    UNION {{{StoredPhoto(id, h[id]) : id \in 1..n} :
              h \in [1..n -> HashStrings \cup {NoPhotoHash}]} : n \in 0..MaxItems}

\* filter(File.photo_hash.isnot(None))
Hashed(table) == {r \in table : r.photo_hash # NoPhotoHash}

\* .all() of a query without ORDER BY: the rows in any order
AnyOrder(rows) ==
    {order \in [1..Cardinality(rows) -> rows] :
        \A k, l \in 1..Cardinality(rows) : order[k] = order[l] => k = l}

\* the (File.id, File.photo_hash) tuples of the rows, in their order
Tuples(order) ==
    [k \in 1..Len(order) |-> [id |-> order[k].id, phash |-> order[k].photo_hash]]

\* cluster_similar_photos(threshold): query the hashed rows, cluster them
cluster_similar_photos ==
    /\ call.pc = "args"
    /\ \E order \in AnyOrder(Hashed(files)) :
          call' = [call EXCEPT !.pc = "returned",
                               !.items = Tuples(order),
                               !.clusters = cluster_by_hamming(Tuples(order),
                                                               call.threshold, Bits)]
    /\ UNCHANGED <<checker, now, locks, proc, files, exif, disk, scan, repeated>>

InitSimilar ==
    /\ now = 0
    /\ locks = {}
    /\ proc = [p \in Procs |-> IdleProc]
    /\ files \in PhotoTables
    /\ exif = {}
    /\ disk = [path \in Paths |-> Absent]
    /\ scan = IdleScan
    /\ repeated = FALSE
    /\ call \in [pc : {"args"}, items : {<<>>}, threshold : Thresholds,
                 clusters : {<<>>}]
    /\ checker = NoChecker

NextSimilar == cluster_similar_photos

SpecSimilar == InitSimilar /\ [][NextSimilar]_vars

\* ======================================================== the lock manager
\* the step of process p: only p's own actions change proc[p]
Stepped(p) == proc'[p] # proc[p]

\* ----------------------------------------------------------------------- C1
\* C1: in every reachable state, whatever the interleaving of acquire,
\* release, cleanup_expired_locks and check_lock_exists, application_locks
\* holds at most one row per lock_name (so at most one non-expired row).
C1_OneRowPerLockName ==
    \A r, s \in locks : r.lock_name = s.lock_name => r = s

\* two processes contended for one name: one holds it, the other lost the
\* insert to the unique constraint
C1_Witness ==
    \E p, q \in Procs :
        /\ p # q
        /\ proc[p].pc = "held"
        /\ proc[q].pc = "error"
        /\ proc[q].error = RaceError
        /\ proc[q].lock_name = proc[p].lock_name

\* ----------------------------------------------------------------------- C2
\* C2: a no-wait acquire that fails because another holder has the name raises
\* a LockAcquisitionError that names the process id and host of the row that
\* holds the name, on the read path and on the lost insert alike.
C2_LoserNamesWinner ==
    [][\A p \in Procs :
         (/\ proc[p].pc \in {"acq_query", "acq_insert"}
          /\ ~proc[p].wait_for_lock
          /\ proc'[p].pc = "error")
         => \E r \in RowsOf(locks, proc[p].lock_name) :
                /\ proc'[p].error.process_id = r.process_id
                /\ proc'[p].error.hostname = r.hostname]_vars

\* ----------------------------------------------------------------------- C3
\* C3: for a lock name, at most one DatabaseLock instance is between its
\* successful acquire() and its release(), at any time.
C3_AtMostOneWriter ==
    \A p, q \in Procs :
        (/\ proc[p].pc = "held"
         /\ proc[q].pc = "held"
         /\ proc[p].lock_name = proc[q].lock_name) => p = q

\* ----------------------------------------------------------------------- C4
\* C4: a script inside its mutating loop holds its lock row, and no two runs
\* of the same script are inside their mutating loops together.
C4_MutationUnderLock ==
    /\ \A p \in Procs :
          proc[p].pc = "mutating" =>
             \E r \in RowsOf(locks, proc[p].script) : r.process_id = Pid(p)
    /\ \A p, q \in Procs :
          (/\ proc[p].pc = "mutating"
           /\ proc[q].pc = "mutating"
           /\ proc[p].script = proc[q].script) => p = q

\* ----------------------------------------------------------------------- C5
\* C5: while scan discovers, hashes and persists it holds a 'scan' row of its
\* own; a scan started while another holder has a non-expired 'scan' row
\* persists no record and ends with a non-zero exit code.
C5_ScanUnderLock ==
    /\ scan.pc = "hashing" =>
          \E r \in RowsOf(locks, "scan") : r.process_id = ScanPid
    /\ scan.contended =>
          /\ scan.persisted = 0
          /\ scan.pc = "done" => scan.exit_code \notin {NULL, 0}

\* ----------------------------------------------------------------------- C6
\* the reclaiming pass of acquire(): it found an expired row
Reclaiming(p) == proc[p].existing_lock # NoRow

C7_HeldFailsAtOnce ==
    [][\A p \in Procs :
         LET row == QueryFirst(locks, proc[p].lock_name) IN
         (/\ proc[p].pc = "acq_query"
          /\ ~proc[p].wait_for_lock
          /\ row # NoRow
          /\ ~IsExpired(row, now)
          /\ Stepped(p))
         => /\ proc'[p].pc = "error"
            /\ proc'[p].error.kind = "held"
            /\ proc'[p].error.process_id = row.process_id
            /\ proc'[p].error.hostname = row.hostname
            /\ locks' = locks]_vars

\* a no-wait acquire failed on a held name, and the holder's row is still there
C7_Witness ==
    \E p \in Procs :
        /\ proc[p].pc = "error"
        /\ proc[p].error.kind = "held"
        /\ ~proc[p].wait_for_lock
        /\ proc[p].existing_lock \in locks

\* ----------------------------------------------------------------------- C8
\* C8: once the with-block is left, normally or by an exception of the body,
\* no row this holder inserted remains in the table.
C8_ReleasedOnEveryExit ==
    \A p \in Procs :
        proc[p].pc = "released" =>
            ~\E r \in locks : r.process_id = Pid(p) /\ r.hostname = Hostname(p)

\* a with-block was left by an exception of its body, after its row was deleted
C8_Witness ==
    \E p \in Procs :
        /\ proc[p].pc = "released"
        /\ proc[p].error = BodyError
        /\ proc[p].matched = 1

\* ----------------------------------------------------------------------- C9
\* C9: release() of an instance whose row is gone from the table completes
\* without raising and leaves the table unchanged.
C9_ReleaseOfGoneRow ==
    [][\A p \in Procs :
         (/\ proc[p].pc = "held"
          /\ proc[p].lock_record \notin locks
          /\ Stepped(p))
         => /\ proc'[p].pc = "released"
            /\ proc'[p].error.kind # "release"
            /\ locks' = locks]_vars

\* ---------------------------------------------------------------------- C10
\* the records that carry the content hash of r
SameContent(r) == {x \in files : x.md5_hash = r.md5_hash}

\* C10: after create_file calls with pairwise distinct paths, in any order the
\* workers complete in, a record whose content hash an earlier record carries
\* is a duplicate of the lowest id with that hash; the first record of a
\* content hash that matches no earlier perceptual hash is no duplicate.
C10_DuplicateOfEarliest ==
    ~repeated =>
        \A r \in files :
            LET first == MinOf({x.id : x \in SameContent(r)}) IN
            /\ r.id # first =>
                  r.is_duplicate /\ r.duplicate_of_id = first
            /\ (/\ r.id = first
                /\ ~\E x \in files :
                       x.id < r.id /\ r.photo_hash # "" /\ x.photo_hash = r.photo_hash)
               => ~r.is_duplicate /\ r.duplicate_of_id = NULL

\* a scan stored three files of one content hash, the workers finishing out
\* of the order of discovery: the second and the third are duplicates of the first
C10_Witness ==
    /\ ~repeated
    /\ scan.pc = "done"
    /\ scan.persisted = 3
    /\ \E r1, r2, r3 \in files :
          /\ r1.id = 1 /\ r2.id = 2 /\ r3.id = 3
          /\ r1.path # PathOrder[1]
          /\ r1.md5_hash = r2.md5_hash /\ r2.md5_hash = r3.md5_hash
          /\ ~r1.is_duplicate
          /\ r2.duplicate_of_id = 1
          /\ r3.duplicate_of_id = 1

\* ---------------------------------------------------------------------- C11
\* C11: in every state reached by create_file calls and scans, repeated paths
\* included, a record with is_duplicate = true has a non-null duplicate_of_id
\* that is the id of a stored record with a strictly smaller id.
C11_DuplicateHasEarlierOriginal ==
    \A r \in files :
        r.is_duplicate =>
            /\ r.duplicate_of_id # NULL
            /\ \E x \in files : x.id = r.duplicate_of_id /\ x.id < r.id

\* ---------------------------------------------------------------------- C12
\* what the claims compare of a record: its identity and its duplicate flags
Flags(table) ==
    {[id |-> r.id, path |-> r.path, is_duplicate |-> r.is_duplicate,
      duplicate_of_id |-> r.duplicate_of_id] : r \in table}

\* every file of the folder that can be hashed has its record: the state a
\* first scan of the folder leaves
AllStored == \A path \in Paths : disk[path].readable => PathTaken(files, path)

\* C12: a scan of a folder whose files were all stored by a first scan, with no
\* file changed, adds no row and changes no record's is_duplicate flag or
\* duplicate_of_id.
C12_RescanChangesNothing ==
    [][(scan.pc = "hashing" /\ ~repeated /\ AllStored)
         => Flags(files') = Flags(files)]_vars

\* ---------------------------------------------------------------------- C13
\* C13: a create_file call for a stored path adds no row and leaves the row of
\* that path with is_duplicate and duplicate_of_id as the matching rule gives
\* them against the other records, and with updated_at set to the time of the call.
C13_StoredPathRematched ==
    [][\A path \in Paths :
         (/\ PathTaken(files, path)
          /\ RowOfPath(files', path) # RowOfPath(files, path))
         => LET old == RowOfPath(files, path)
                new == RowOfPath(files', path)
                match == DuplicateOf(files \ {old}, old.md5_hash, old.photo_hash)
            IN /\ {r.id : r \in files'} = {r.id : r \in files}
               /\ new.id = old.id
               /\ new.is_duplicate = (match # NULL)
               /\ new.duplicate_of_id = match
               /\ new.updated_at = now]_vars

\* ---------------------------------------------------------------------- C14
\* the lowest id among the records S, NULL when there is none
LowestId(S) == IF S = {} THEN NULL ELSE MinOf({x.id : x \in S})

\* C14: the record a create_file call inserts is a duplicate of the lowest id
\* with its content hash when there is one, whatever matches its perceptual
\* hash; without a content-hash match, of the lowest id with its (non-empty)
\* perceptual hash; without either it is no duplicate and duplicate_of_id is NULL.
C14_MatchPriority ==
    [][\A r \in files' \ files :
         r.id \notin {x.id : x \in files} =>
            LET byMd5 == {x \in files : x.md5_hash = r.md5_hash}
                byPhash == {x \in files : r.photo_hash # "" /\ x.photo_hash = r.photo_hash}
                expected == IF byMd5 # {} THEN LowestId(byMd5) ELSE LowestId(byPhash)
            IN /\ r.duplicate_of_id = expected
               /\ r.is_duplicate = (expected # NULL)]_vars

\* a record is the duplicate of its content-hash match although an earlier
\* record carries its perceptual hash
C14_Witness ==
    \E r, x, y \in files :
        /\ y.id < x.id /\ x.id < r.id
        /\ r.photo_hash # "" /\ y.photo_hash = r.photo_hash
        /\ y.md5_hash # r.md5_hash
        /\ x.md5_hash = r.md5_hash
        /\ r.duplicate_of_id = x.id
        /\ r.is_duplicate
        /\ ~repeated

\* ---------------------------------------------------------------------- C15
\* C15: once reverse-geocoding has failed for a GPS-tagged file of a scan, the
\* scan persists nothing more, leaves the stored records as they are and ends
\* with a non-zero exit code.
C15_GeocodeFailureAborts ==
    [][(scan.pc = "hashing" /\ scan.geocode_failed)
         => /\ files' = files
            /\ scan'.pc = "done" => scan'.exit_code \notin {NULL, 0}]_vars

\* ---------------------------------------------------------------------- C16
\* the records of a path
RecordsOf(path) == {r \in files : r.path = path}

\* C16: when a scan with a session has returned, every candidate whose content
\* hash could be computed has exactly one record, a candidate whose hashing
\* failed has none, and the scan ended normally all the same.
C16_OneRecordPerHashedFile ==
    scan.pc = "done" =>
        /\ scan.exit_code = 0
        /\ \A path \in Paths :
              /\ disk[path].readable => Cardinality(RecordsOf(path)) = 1
              /\ (disk[path].exists /\ ~disk[path].readable) => RecordsOf(path) = {}

\* a scan returned from a folder with a file that could not be hashed and two
\* that could, one of them handled after the failure was skipped
C16_Witness ==
    /\ scan.pc = "done"
    /\ scan.persisted = 2
    /\ ~repeated
    /\ \E path \in Paths : disk[path].exists /\ ~disk[path].readable
    /\ Cardinality(files) = 2

\* ---------------------------------------------------------------------- C17
\* a step of a worker thread: a future starts or ends
WorkerStep == scan'.running # scan.running

\* a store write: files or exif_data changes
StoreWrite == files' # files \/ exif' # exif

\* C17: during a scan no step of a worker thread changes the store; every
\* store write is a step of the coordinating thread at its create_file or its
\* save_exif, one statement at a time, whatever the workers do meanwhile.
C17_WritesByCoordinator ==
    [][scan.pc = "hashing" =>
         /\ WorkerStep => ~StoreWrite
         /\ StoreWrite =>
               /\ scan.step \in {"create", "save_exif"}
               /\ scan'.step # scan.step
               /\ ~(files' # files /\ exif' # exif)]_vars

\* the coordinating thread is between create_file and save_exif of one file
\* while worker threads are hashing others
C17_Witness ==
    /\ scan.pc = "hashing"
    /\ scan.step = "save_exif"
    /\ scan.running # {}
    /\ \E r \in files : r.id = scan.created /\ r.path = scan.current

IdsOf(items) == {items[k].id : k \in 1..Len(items)}
DistinctIds(items) == Cardinality(IdsOf(items)) = Len(items)
Places(clusters, id) ==
    {<<c, k>> \in (1..Len(clusters)) \X (1..MaxItems) :
        k <= Len(clusters[c]) /\ clusters[c][k] = id}

\* C19: cluster_by_hamming returns a partition of the input ids: whatever
\* the items (distinct ids) and the threshold, every input id stands at
\* exactly one place of exactly one cluster, no cluster is empty and no
\* id from outside the input appears.
C19_ClustersPartitionIds ==
    (call.pc = "returned" /\ DistinctIds(call.items)) =>
        /\ \A id \in IdsOf(call.items) : Cardinality(Places(call.clusters, id)) = 1
        /\ \A c \in 1..Len(call.clusters) :
              /\ call.clusters[c] # <<>>
              /\ \A k \in 1..Len(call.clusters[c]) :
                    call.clusters[c][k] \in IdsOf(call.items)

\* three items with distinct ids came back as one cluster of two and a singleton
C19_Witness ==
    /\ call.pc = "returned"
    /\ DistinctIds(call.items)
    /\ Len(call.items) = MaxItems
    /\ Len(call.clusters) = 2
    /\ \E c \in 1..2 : Len(call.clusters[c]) = 2

\* the ids of one cluster, and the thresholds above the one of the call
Members(cluster) == {cluster[k] : k \in 1..Len(cluster)}
Wider == {t2 \in Thresholds : t2 > call.threshold}
Under(t2) == cluster_by_hamming(call.items, t2, Bits)

\* C20 (as stated): threshold refinement: for the same items and
\* thresholds t1 < t2, every cluster produced under t1 is a subset of some
\* cluster produced under t2.
C20_EveryClusterRefines ==
    (call.pc = "returned" /\ DistinctIds(call.items)) =>
        \A t2 \in Wider : \A c \in 1..Len(call.clusters) :
            \E d \in 1..Len(Under(t2)) :
                Members(call.clusters[c]) \subseteq Members(Under(t2)[d])

\* C20 (amended): for the same items and thresholds t1 < t2, the first
\* cluster under t1 (the one seeded by the first item) is a subset of the
\* first cluster under t2; later clusters need not be subsets of any.
C20_FirstClusterGrows ==
    (call.pc = "returned" /\ call.items # <<>>) =>
        \A t2 \in Wider :
            Members(call.clusters[1]) \subseteq Members(Under(t2)[1])

\* under a wider threshold the first cluster took the seed of a later
\* cluster and left that cluster's other member behind
C20_Witness ==
    /\ call.pc = "returned"
    /\ DistinctIds(call.items)
    /\ Len(call.clusters) = 2
    /\ Len(call.clusters[2]) = 2
    /\ \E t2 \in Wider :
          /\ call.clusters[2][1] \in Members(Under(t2)[1])
          /\ call.clusters[2][2] \notin Members(Under(t2)[1])

\* ======================================================= hamming_distance
\* a valid hash of the given width: a hex string whose value fits in it
ValidHash(hexstr, bits) ==
    IntOfHex(hexstr) # NULL /\ IntOfHex(hexstr) < 2 ^ bits
\* the bit positions in which two values differ
DifferingBits(a, b, bits) ==
    {k \in 0..(bits - 1) : (a \div (2 ^ k)) % 2 # (b \div (2 ^ k)) % 2}

\* C21: hamming_distance(h, h) = 0 for every valid hex hash h;
\* hamming_distance(a, b) = hamming_distance(b, a) for all a, b; for
\* valid hashes of the full width the result is the number of differing
\* bit positions (all-zero against all-one gives the width).
C21_DistanceZeroSymmetricCount ==
    call.pc = "distance" =>
        /\ call.distance = hamming_distance(call.hex2, call.hex1, Bits)
        /\ (call.hex1 = call.hex2 /\ ValidHash(call.hex1, Bits)) =>
              call.distance = 0
        /\ (ValidHash(call.hex1, Bits) /\ ValidHash(call.hex2, Bits)) =>
              call.distance = Cardinality(DifferingBits(IntOfHex(call.hex1),
                                                        IntOfHex(call.hex2), Bits))

\* all-zero against all-one came back as the full width
C21_Witness ==
    /\ call.pc = "distance"
    /\ call.hex1 = <<"0">>
    /\ call.hex2 = <<"f">>
    /\ call.distance = Bits

\* ==================================================== seed-based membership
\* the hash of the item with the given id, the cluster an id was put in, and
\* the distance between the items of two ids
HashOf(id) ==
    call.items[CHOOSE k \in 1..Len(call.items) : call.items[k].id = id].phash
ClusterOf(id) ==
    CHOOSE c \in 1..Len(call.clusters) : id \in Members(call.clusters[c])
Distance(id1, id2) == hamming_distance(HashOf(id1), HashOf(id2), Bits)

\* every member is within the threshold of its seed, and every seed is
\* further than the threshold from every earlier seed
SeedRule ==
    /\ \A c \in 1..Len(call.clusters) : \A k \in 2..Len(call.clusters[c]) :
          Distance(call.clusters[c][1], call.clusters[c][k]) <= call.threshold
    /\ \A c \in 1..Len(call.clusters) : \A d \in 1..(c - 1) :
          Distance(call.clusters[d][1], call.clusters[c][1]) > call.threshold

\* all-zero against all-one under a threshold below the width: two singletons
ZeroAndOneApart ==
    (/\ Len(call.items) = 2
     /\ call.items[1].phash = <<"0">>
     /\ call.items[2].phash = <<"f">>
     /\ call.threshold < Bits) =>
        call.clusters = << <<call.items[1].id>>, <<call.items[2].id>> >>

\* C22 (as stated): every non-first member of a cluster is within the
\* threshold of the cluster's seed and every seed is further than the
\* threshold from every earlier seed; so items with identical hashes share
\* a cluster, and all-zero against all-one form two singleton clusters.
C22_SeedRuleIdenticalShare ==
    (call.pc = "returned" /\ DistinctIds(call.items)) =>
        /\ SeedRule
        /\ ZeroAndOneApart
        /\ \A i, j \in IdsOf(call.items) :
              HashOf(i) = HashOf(j) => ClusterOf(i) = ClusterOf(j)

\* C22 (amended): the seed rule as stated; items with identical hashes
\* share a cluster when the hash is parsable as hex and the threshold is
\* not negative; all-zero against all-one form two singleton clusters.
C22_SeedRuleParsableShare ==
    (call.pc = "returned" /\ DistinctIds(call.items)) =>
        /\ SeedRule
        /\ ZeroAndOneApart
        /\ \A i, j \in IdsOf(call.items) :
              (/\ HashOf(i) = HashOf(j)
               /\ IntOfHex(HashOf(i)) # NULL
               /\ call.threshold >= 0) => ClusterOf(i) = ClusterOf(j)

\* two items with one parsable hash were put into one cluster behind a
\* seed with another hash
C22_Witness ==
    /\ call.pc = "returned"
    /\ DistinctIds(call.items)
    /\ Len(call.clusters) = 1
    /\ Len(call.clusters[1]) = MaxItems
    /\ Distance(call.clusters[1][2], call.clusters[1][MaxItems]) = 0
    /\ Distance(call.clusters[1][1], call.clusters[1][2]) = 1
    /\ call.threshold = 1

\* ================================================== cluster_similar_photos
RECURSIVE ById(_)
\* the rows of a table in ascending order of id
ById(rows) ==
    IF rows = {} THEN <<>>
    ELSE LET first == CHOOSE r \in rows : \A x \in rows : r.id <= x.id
         IN  <<first>> \o ById(rows \ {first})

\* C23: cluster_similar_photos processes the hashed records in ascending
\* id order: whatever order the store returns the rows in, its clusters are
\* those of the greedy pass over the records sorted by id, so the seed of
\* every cluster is the cluster's smallest id.
C23_ClustersOfAscendingIds ==
    call.pc = "returned" =>
        /\ call.clusters =
              cluster_by_hamming(Tuples(ById(Hashed(files))), call.threshold, Bits)
        /\ \A c \in 1..Len(call.clusters) :
              \A id \in Members(call.clusters[c]) : call.clusters[c][1] <= id

\* the store returned the rows in ascending order of id and the pass put
\* two of them into one cluster
C23_Witness ==
    /\ call.pc = "returned"
    /\ call.items = Tuples(ById(Hashed(files)))
    /\ Len(call.items) = MaxItems
    /\ Len(call.clusters) = 2

\* ======================================================= waiting for a lock
\* process p is inside an acquire() that waits, called early enough for its
\* last sleep to end within the clock's range
Waiting(p) ==
    /\ proc[p].pc \in {"acq_query", "acq_sleep", "acq_delete", "acq_insert"}
    /\ proc[p].wait_for_lock
    /\ proc[p].start_time + WaitTimeout + SleepSeconds - 1 <= MaxTime

\* no row of p's lock name, or only an expired one
Free(p) ==
    \A r \in RowsOf(locks, proc[p].lock_name) : IsExpired(r, now)

\* acquire() of p raises "Timeout waiting for lock" in this step
TimesOut(p) ==
    /\ proc[p].pc # "error"
    /\ proc'[p].pc = "error"
    /\ proc'[p].error.kind = "timeout"

\* the poll of a waiting p finds the lock held with wait_timeout elapsed
PollsLate(p) ==
    /\ proc[p].pc = "acq_query"
    /\ proc[p].wait_for_lock
    /\ now - proc[p].start_time >= WaitTimeout
    /\ ~Free(p)

\* the timeout is raised at a poll that finds the lock held with
\* wait_timeout elapsed, and such a poll raises it
TimeoutWhenDue ==
    [][\A p \in Procs :
          /\ TimesOut(p) => PollsLate(p)
          /\ (PollsLate(p) /\ Stepped(p)) => TimesOut(p)]_vars

\* C24: with wait_for_lock=True, acquire on a held lock polls
\* and raises LockAcquisitionError once wait_timeout has elapsed while the
\* lock is still held; if the lock becomes free (released, or its lease
\* expired) before wait_timeout, the waiting acquire eventually succeeds.
C24_FreedLockIsTaken ==
    /\ TimeoutWhenDue
    /\ \A p \in Procs :
          (Waiting(p) /\ Free(p) /\ now - proc[p].start_time < WaitTimeout)
              ~> (proc[p].pc = "held")

\* a waiting acquire gave up while the other process still held the lock
C24_Witness ==
    \E p, q \in Procs :
        /\ proc[p].pc = "error"
        /\ proc[p].error.kind = "timeout"
        /\ proc[p].wait_for_lock
        /\ proc[q].pc = "held"
        /\ proc[q].lock_record \in locks
        /\ proc[p].error.process_id = Pid(q)

\* ============================================================ the dry run
\* a step of the dry run's checker
CheckerStepped == checker' # checker

\* a non-expired row of the checker's lock name is in the table
LockedNow == \E r \in RowsOf(locks, checker.lock_name) : ~IsExpired(r, now)

\* the checker raises LockAcquisitionError in this step
CheckerRaises == checker.pc # "aborted" /\ checker'.pc = "aborted"

\* the check of this step: that of check_at_start, or that of a
\* periodic_check with check_interval elapsed
ChecksNow ==
    /\ CheckerStepped
    /\ \/ checker.pc = "created"
       \/ (checker.pc = "running" /\ checker'.pc # "none")

\* C25: DryRunLockChecker never inserts a lock row; check_at_start raises
\* LockAcquisitionError exactly when a non-expired row of its lock name
\* exists, and a periodic_check that runs after check_interval has elapsed
\* raises exactly when such a row exists at that moment.
C25_CheckerRaisesWhenLocked ==
    [][/\ CheckerStepped => locks' \subseteq locks
       /\ ChecksNow => (CheckerRaises <=> LockedNow)
       /\ (ChecksNow /\ checker.pc = "running") =>
              now - checker.last_check_time >= CheckInterval
       /\ CheckerRaises => ChecksNow]_vars

\* a dry run that started on a free lock was stopped by its periodic check
\* when a process had taken the lock
C25_Witness ==
    /\ checker.pc = "aborted"
    /\ checker.error.kind = "periodic"
    /\ checker.existing_lock \in locks
    /\ \E p \in Procs : proc[p].pc = "held" /\ proc[p].lock_record = checker.existing_lock

\* ================================================= the lease of a new row
\* acquire() of p commits its row in this step
Inserts(p) == proc[p].pc = "acq_insert" /\ proc'[p].pc = "held"

\* C26: the row inserted by a successful acquire has expires_at = (time of
\* the insert) + timeout_seconds, also when acquire first waited or first
\* reclaimed an expired row; a lock is never already expired at the moment
\* it is acquired.
C26_LeaseFromInsert ==
    [][\A p \in Procs : Inserts(p) =>
          /\ proc'[p].lock_record.expires_at = now + TimeoutSeconds
          /\ ~IsExpired(proc'[p].lock_record, now)]_vars

\* a process that waited for a lock another process has released holds a
\* row whose lease had run out before the row was inserted
C26_Witness ==
    \E p, q \in Procs :
        /\ proc[q].pc = "released"
        /\ proc[q].matched = 1
        /\ proc[p].pc = "held"
        /\ proc[p].wait_for_lock
        /\ proc[p].lock_record \in locks
        /\ proc[p].lock_record.expires_at < proc[p].lock_record.acquired_at

\* ======================================================= whose row release deletes
\* release() of p runs in this step
Releases(p) == proc[p].pc = "held" /\ proc'[p].pc = "released"

\* C27: release() deletes only the row that this lock instance inserted: if
\* the instance's lease expired and another holder reclaimed the same lock
\* name, a later release() by the original holder leaves the new holder's
\* row in place.
C27_ReleaseDeletesOwnRow ==
    [][\A p \in Procs : Releases(p) =>
          \A r \in locks \ locks' : r = proc[p].lock_record]_vars

\* the original holder has released after its lease expired and another
\* process reclaimed the lock; the new holder's row is gone while it holds
C27_Witness ==
    \E p, q \in Procs :
        /\ proc[p].pc = "released"
        /\ proc[p].matched = 1
        /\ proc[q].pc = "held"
        /\ proc[q].lock_record \notin locks
        /\ proc[q].lock_record.acquired_at > 0
        /\ locks = {}

\* ============================================== rows without an expiry time
\* the rows of the table whose expires_at is NULL
Unexpiring == {r \in locks : r.expires_at = NULL}

\* a step of this program (of one of its processes)
ProgramStep == proc' # proc

\* an acquire() polling r's name does not go on to delete or to insert
NotReclaimed(r) ==
    \A p \in Procs :
        (proc[p].pc = "acq_query" /\ proc[p].lock_name = r.lock_name /\ Stepped(p))
            => proc'[p].pc \in {"error", "acq_sleep"}

\* a check_lock_exists of r's name returns r
Returns(r) ==
    \A p \in Procs :
        (proc[p].pc = "idle" /\ proc'[p].pc \in {"checked", "chk_delete"}
         /\ proc'[p].lock_name = r.lock_name)
            => (proc'[p].pc = "checked" /\ proc'[p].returned = r)

\* C28: a lock row whose expires_at is NULL is never treated as expired:
\* acquire never reclaims it, check_lock_exists always returns it and
\* cleanup_expired_locks never deletes it; only a release by its own holder
\* removes it.
C28_NullNeverExpires ==
    [][\A r \in Unexpiring :
          /\ NotReclaimed(r)
          /\ Returns(r)
          /\ ProgramStep => r \in locks']_vars

\* a check_lock_exists has returned a row without expiry time that is long
\* in the table
C28_Witness ==
    \E p \in Procs :
        /\ proc[p].pc = "checked"
        /\ proc[p].returned \in Unexpiring
        /\ now >= proc[p].returned.acquired_at + TimeoutSeconds

\* ================================================ what check_lock_exists changes
\* check_lock_exists of p: its query, and the commit of its delete
Checks(p) == proc[p].pc = "idle" /\ proc'[p].pc \in {"checked", "chk_delete"}
Drops(p) == proc[p].pc = "chk_delete" /\ proc'[p].pc = "checked"

\* C29: check_lock_exists changes the store only by deleting a lock row it
\* finds expired, in which case it returns None; a non-expired row is
\* returned and left unchanged, and when no row exists the store is
\* unchanged.
C29_CheckDropsOnlyExpired ==
    [][\A p \in Procs :
          /\ Checks(p) =>
                /\ locks' = locks
                /\ proc'[p].pc = "checked" =>
                      proc'[p].returned = QueryFirst(locks, proc'[p].lock_name)
                /\ proc'[p].pc = "chk_delete" =>
                      IsExpired(QueryFirst(locks, proc'[p].lock_name), now)
          /\ Drops(p) =>
                /\ proc'[p].returned = NoRow
                /\ \A r \in locks \ locks' :
                      r = proc[p].existing_lock /\ IsExpired(r, now)]_vars

\* a check has deleted the expired row it found and returned None
C29_Witness ==
    \E p \in Procs :
        /\ proc[p].pc = "checked"
        /\ proc[p].returned = NoRow
        /\ proc[p].existing_lock # NoRow
        /\ IsExpired(proc[p].existing_lock, now)
        /\ RowsOf(locks, proc[p].lock_name) = {}

\* ======================================================= unparsable hashes
\* int(hexstr, 16) raises for the hash of this id
Unparsable(id) == IntOfHex(HashOf(id)) = NULL

\* C30: hamming_distance returns the maximum distance `bits` whenever
\* either argument is not parsable as hex (the empty string included), also
\* for a string against itself; hence under a threshold below `bits` a
\* record with an unparsable hash always ends in a singleton cluster.
C30_UnparsableIsFarthest ==
    (call.pc = "returned" /\ DistinctIds(call.items)) =>
        \A i \in IdsOf(call.items) : Unparsable(i) =>
            /\ \A j \in IdsOf(call.items) :
                  Distance(i, j) = Bits /\ Distance(j, i) = Bits
            /\ call.threshold < Bits => call.clusters[ClusterOf(i)] = <<i>>

\* the empty string and a non-hex string, each with a parsable hash before
\* and after it in the list, came back as singletons
C30_Witness ==
    /\ call.pc = "returned"
    /\ DistinctIds(call.items)
    /\ Len(call.items) = MaxItems
    /\ call.items[2].phash \in {<<>>, <<"z">>}
    /\ call.items[1].phash = call.items[MaxItems].phash
    /\ ~Unparsable(call.items[1].id)
    /\ call.threshold = 0
    /\ call.clusters =
          << <<call.items[1].id, call.items[MaxItems].id>>, <<call.items[2].id>> >>

====
